---- MODULE Spec2Model ----
(***************************************************************************)
(* TurboLP: the streaming, multithreaded line-to-JSONL pipeline of          *)
(* src/src/core.rs (run_streaming_parallel) together with its caller       *)
(* src/src/main.rs (main, run_with_threads).                                *)
(*                                                                         *)
(* Threads: main, one Line Reader, N workers, one Writer.  They talk only   *)
(* through three crossbeam bounded channels (lines, blobs, counts).         *)
(* Bytes are modelled as one-character strings.  The sizes of the code      *)
(* (4 MiB, 16384 records, 64 lines per worker, 4 blobs per worker, 32 MiB   *)
(* of write buffer) are scaled down so that every threshold and every full  *)
(* queue is met by inputs of a few lines; the comparisons are the code's.   *)
(*                                                                         *)
(* Spec is the pipeline with faults injected by the environment,           *)
(* ReliableSpec its fault-free runs under fair scheduling, and HelperSpec    *)
(* runs open_maybe_gz_bufread / open_maybe_gz_read, count_lines_any and the *)
(* worker's line normalization on their own, on inputs and read splits the  *)
(* pipeline leaves out.                                                     *)
(***************************************************************************)
EXTENDS Integers, Sequences, FiniteSets, TLC

(* ------------------------------ bounds -------------------------------- *)

\* at most this many lines in the input file
MaxLines == 4
\* worker counts 1..MaxWorkers are explored
MaxWorkers == 2
\* what num_cpus::get() answers when --workers is absent
NumCpus == 1
\* a failing write accepts at most this many bytes before it fails
MaxPartial == 1
\* at most this many faults (I/O failures, panics) are injected into one run
MaxFaults == 1
\* a file handed to open_maybe_gz_* on its own holds at most this many bytes
MaxFileLen == 3
\* a line handed to the worker normalization on its own holds at most this
\* many bytes before its terminator
MaxLineLen == 3
\* a content handed to count_lines_any on its own holds at most this many bytes
MaxCountLen == 4

(* ------------------- program constants (scaled down) ------------------- *)

\* core.rs:79  BYTES_BLOB_TARGET = 4 << 20
BYTES_BLOB_TARGET == 9
\* core.rs:80  LINES_BLOB_MAX = 16_384
LINES_BLOB_MAX == 2
\* core.rs:81  LINES_CHAN_FACTOR = 64
LINES_CHAN_FACTOR == 1
\* core.rs:85  bounded(workers * 4)
BLOBS_CHAN_FACTOR == 2
\* core.rs:90  BufWriter::with_capacity(32 << 20, writer)
WRITER_BUF == 9
\* core.rs:212  vec![0u8; 256 * 1024]
COUNT_BUF == 2

(* ------------------------------- bytes -------------------------------- *)

NL == "\n"
CR == "\r"
LA == "a"
\* 0xFF, a byte that occurs in no valid UTF-8 text
BAD == "xFF"
LBRACE == "{"
RBRACE == "}"
BSLASH == "\\"
LR == "r"
\* 0x1F 0x8B, the gzip magic, and 0x00
GZ1 == "x1F"
GZ2 == "x8B"
ZERO == "x00"

(* --------------------------- pure functions --------------------------- *)

RECURSIVE Concat(_)
\* concatenation of a sequence of byte sequences
Concat(ss) == IF ss = <<>> THEN <<>> ELSE Head(ss) \o Concat(Tail(ss))

\* the line shapes the inputs are built from (terminator not included)
LineShapes == { <<>>, <<LA>>, <<LA, LA, LA, LA, LA, LA>>, <<BAD>> }

RECURSIVE ShapeSeqs(_)
\* all sequences of exactly n line shapes
ShapeSeqs(n) ==
    IF n = 0 THEN { <<>> }
    ELSE { <<s>> \o t : s \in LineShapes, t \in ShapeSeqs(n - 1) }

\* every shape is followed by NL; the last one may be left unterminated
Terminated(ss) == Concat([i \in 1..Len(ss) |-> ss[i] \o <<NL>>])
Unterminated(ss) ==
    Concat([i \in 1..Len(ss) |-> IF i = Len(ss) THEN ss[i] ELSE ss[i] \o <<NL>>])

\* the logical contents of the input file that are explored
Inputs ==
    UNION { { Terminated(ss), Unterminated(ss) } : ss \in UNION { ShapeSeqs(n) : n \in 0..MaxLines } }

\* read_until with a slip: an unterminated tail is not returned
ReadUntil_DropsTail(c, pos) ==
    LET rest == SubSeq(c, pos + 1, Len(c))
        nls == { i \in 1..Len(rest) : rest[i] = NL }
    IN IF nls = {} THEN <<>>
       ELSE SubSeq(rest, 1, CHOOSE i \in nls : \A j \in nls : i <= j)

\* BufRead::read_until(b'\n'): the bytes of c after offset pos up to and
\* including the first NL, or the rest of c when there is none
ReadUntil(c, pos) ==
    LET rest == SubSeq(c, pos + 1, Len(c))
        nls == { i \in 1..Len(rest) : rest[i] = NL }
    IN IF nls = {} THEN rest
       ELSE SubSeq(rest, 1, CHOOSE i \in nls : \A j \in nls : i <= j)

\* std::str::from_utf8(&line_bytes).is_ok()
Utf8Ok(line) == \A i \in 1..Len(line) : line[i] # BAD

\* core.rs:117-122: strip one trailing NL, then one trailing CR
StripNL(s) == IF Len(s) > 0 /\ s[Len(s)] = NL THEN SubSeq(s, 1, Len(s) - 1) ELSE s
StripCR(s) == IF Len(s) > 0 /\ s[Len(s)] = CR THEN SubSeq(s, 1, Len(s) - 1) ELSE s
\* the normalization with a slip: the carriage return is looked for first
Normalize_CRFirst(line) == StripNL(StripCR(line))

\* core.rs:117-122: the two strips in the order of the code
Normalize(line) == StripCR(StripNL(line))

\* str::trim().is_empty(): only whitespace
IsBlank(s) == \A i \in 1..Len(s) : s[i] \in {CR, NL}

RECURSIVE JsonEscape(_)
\* serde_json string escaping: control bytes become two-byte escapes
JsonEscape(s) ==
    IF s = <<>> THEN <<>>
    ELSE (IF Head(s) = CR THEN <<BSLASH, LR>> ELSE <<Head(s)>>) \o JsonEscape(Tail(s))

\* the transformation with a slip: the record is left without its terminator
ProcessLineToBuf_NoNL(s, out) ==
    IF IsBlank(s) THEN [emitted |-> FALSE, out |-> out]
    ELSE [emitted |-> TRUE, out |-> out \o <<LBRACE>> \o JsonEscape(s) \o <<RBRACE>>]

\* csv_dummy.rs process_line_to_buf: nothing for a blank line, otherwise one
\* JSON object carrying the line, followed by NL pushed by the parser itself
ProcessLineToBuf(s, out) ==
    IF IsBlank(s) THEN [emitted |-> FALSE, out |-> out]
    ELSE [emitted |-> TRUE, out |-> out \o <<LBRACE>> \o JsonEscape(s) \o <<RBRACE>> \o <<NL>>]


\* count_lines_any (core.rs:210-223): the number of NL bytes
CountLinesAny(c) == Cardinality({ i \in 1..Len(c) : c[i] = NL })

\* core.rs:188-193 registry(): the names of the registered parsers
RegistryNames == { "web-access", "csv-dummy" }

\* the worker count with a slip: .max(1) is left out
ResolveWorkers_NoMax(arg) == IF arg = <<>> THEN NumCpus ELSE arg[1]

\* main.rs:88  workers.unwrap_or_else(num_cpus::get).max(1)
ResolveWorkers(arg) ==
    LET n == IF arg = <<>> THEN NumCpus ELSE arg[1]
    IN IF n >= 1 THEN n ELSE 1

(* ------------------------------- state -------------------------------- *)

VARIABLES
    content,      \* logical content of the input file
    module,       \* --module
    workersArg,   \* --workers (<<>> when absent)
    mainpc,       \* position of the main thread
    nWorkers,     \* `workers` of run_streaming_parallel
    spawned,      \* number of worker threads spawned so far
    joined,       \* number of worker handles joined so far
    received,     \* number of rx_counts.recv() calls done so far
    total,        \* `total` of run_streaming_parallel
    ret,          \* what the program returned: kind, origin of the error, count
    mainTxBlobs,  \* main still owns its tx_blobs
    inputRead,    \* the input file has been opened for reading
    outputCreated,\* File::create(output) has succeeded
    lineCount,    \* result of count_lines_any, -1 before
    rpc,          \* position of the reader thread
    rpos,         \* bytes of content consumed by the reader
    rbuf,         \* `buf` of the reader
    rres,         \* result of the reader thread
    enqueued,     \* history: the Lines the reader enqueued, in order
    lineQ,        \* lines channel
    blobQ,        \* blobs channel
    countQ,       \* counts channel
    wpc,          \* position of each worker thread
    wblob,        \* `blob` of each worker
    wlines,       \* `lines_in_blob` of each worker
    wcount,       \* `local_count` of each worker
    wrpc,         \* position of the writer thread
    wbuf,         \* buffer of the writer's BufWriter
    wrres,        \* result of the writer thread
    sink,         \* bytes that reached the output sink
    sinkBroken,   \* the sink has started failing writes
    sentBlobs,    \* history: every blob a worker handed to the blob queue
    dequeued,     \* history: the Lines the workers dequeued, in order
    takenBlobs,   \* history: the blobs the writer dequeued, in order
    faults,       \* number of faults injected so far
    upc,          \* position of a helper function called on its own
    opener,       \* which of the two open_maybe_gz functions is called
    fhBytes,      \* bytes of the file behind `fh`
    fhPos,        \* offset of the handle `fh`
    magic,        \* `magic` of open_maybe_gz_*
    nRead,        \* `n` of open_maybe_gz_*, -1 before the read
    opened,       \* what open_maybe_gz_* returned
    lineBytes,    \* `line_bytes` of the worker loop
    text,         \* `s` as passed to process_line_to_buf
    countTotal    \* `total` of count_lines_any

cliVars == <<content, module, workersArg>>
mainVars == <<mainpc, nWorkers, spawned, joined, received, total, ret, mainTxBlobs,
              inputRead, outputCreated, lineCount>>
readerVars == <<rpc, rpos, rbuf, rres, enqueued>>
workerVars == <<wpc, wblob, wlines, wcount, sentBlobs, dequeued>>
writerVars == <<wrpc, wbuf, wrres, sink, sinkBroken, takenBlobs>>
helperVars == <<upc, opener, fhBytes, fhPos, magic, nRead, opened, lineBytes, text, countTotal>>
pipelineVars == <<cliVars, mainVars, readerVars, workerVars, writerVars, lineQ, blobQ, countQ>>
vars == <<pipelineVars, faults, helperVars>>

Workers == 1..MaxWorkers
\* Option<usize>: <<>> is None, <<n>> is Some(n)
WorkerArgs == { <<>> } \cup { <<n>> : n \in 0..MaxWorkers }
\* --module: a registered parser and a name the registry does not hold (the
\* web-access parser accepts no line over the bytes explored here)
Modules == {"csv-dummy", "no-such-module"}

Init ==
    /\ content \in Inputs
    /\ module \in Modules
    /\ workersArg \in WorkerArgs
    /\ mainpc = "lookup"
    /\ nWorkers = 0
    /\ spawned = 0
    /\ joined = 0
    /\ received = 0
    /\ total = 0
    /\ ret = [kind |-> "none", origin |-> "none", count |-> 0]
    /\ mainTxBlobs = TRUE
    /\ inputRead = FALSE
    /\ outputCreated = FALSE
    /\ lineCount = -1
    /\ rpc = "unborn"
    /\ rpos = 0
    /\ rbuf = <<>>
    /\ rres = "none"
    /\ enqueued = <<>>
    /\ lineQ = <<>>
    /\ blobQ = <<>>
    /\ countQ = <<>>
    /\ wpc = [w \in Workers |-> "unborn"]
    /\ wblob = [w \in Workers |-> <<>>]
    /\ wlines = [w \in Workers |-> 0]
    /\ wcount = [w \in Workers |-> 0]
    /\ wrpc = "unborn"
    /\ wbuf = <<>>
    /\ wrres = "none"
    /\ sink = <<>>
    /\ sinkBroken = FALSE
    /\ sentBlobs = <<>>
    /\ dequeued = <<>>
    /\ takenBlobs = <<>>
    /\ faults = 0
    /\ upc = "idle"
    /\ opener = "none"
    /\ fhBytes = <<>>
    /\ fhPos = 0
    /\ magic = <<ZERO, ZERO>>
    /\ nRead = -1
    /\ opened = "none"
    /\ lineBytes = <<>>
    /\ text = <<>>
    /\ countTotal = 0

\* the environment may still inject a fault
MayFail == faults < MaxFaults
\* the outcomes of an operation that can fail
Outcomes == IF MayFail THEN {TRUE, FALSE} ELSE {TRUE}

(* ------------------------ channel end points -------------------------- *)

MainAlive == ret.kind = "none"
\* main.rs:69-72: once main has returned the process ends and every thread with it
ProcessAlive == mainpc # "exit"
WorkerAlive(w) == wpc[w] \in {"recv", "flush", "final", "count"}
WorkerTerminated(w) == wpc[w] \in {"done", "panicked"}

\* rx_lines lives in main until run_streaming_parallel returns; each worker owns a clone
LinesRxAlive == MainAlive \/ \E w \in Workers : WorkerAlive(w)
\* tx_lines is moved into the reader thread and dropped when it ends
LinesTxAlive == rpc # "done"
\* tx_blobs lives in main until drop(tx_blobs); each worker owns a clone
BlobsTxAlive == mainTxBlobs \/ \E w \in Workers : WorkerAlive(w)
\* rx_blobs is moved into the writer thread and dropped when it ends
BlobsRxAlive == wrpc # "done"
\* rx_counts and the original tx_counts live in main until it returns
CountsRxAlive == MainAlive

\* crossbeam_channel::Sender::send on a connected channel: the message joins the tail
ChanSend(q, m) == Append(q, m)
\* a bounded channel accepts a message only below its capacity
ChanHasRoom(q, cap) == Len(q) < cap

\* the lines channel with a slip in its capacity
LinesCap_PlusOne == nWorkers * LINES_CHAN_FACTOR + 1

\* core.rs:83-86: the capacities of the three channels
LinesCap == nWorkers * LINES_CHAN_FACTOR
BlobsCap == nWorkers * BLOBS_CHAN_FACTOR
CountsCap == nWorkers

(* ---------------------------- main thread ----------------------------- *)

\* leaving run_streaming_parallel / main: every handle main owns is dropped
Return(kind, origin, n) ==
    /\ ret' = [kind |-> kind, origin |-> origin, count |-> n]
    /\ mainpc' = "exit"
    /\ mainTxBlobs' = FALSE

\* the lookup with a slip: an unknown module is let through
Lookup_NoCheck ==
    /\ mainpc = "lookup"
    /\ mainpc' = "preflight"
    /\ UNCHANGED <<ret, mainTxBlobs>>
    /\ UNCHANGED <<nWorkers, spawned, joined, received, total, inputRead, outputCreated, lineCount>>
    /\ UNCHANGED <<helperVars, cliVars, readerVars, workerVars, writerVars, lineQ, blobQ, countQ, faults>>

\* main.rs:64-67: look the module up in the registry
Lookup ==
    /\ mainpc = "lookup"
    /\ IF module \in RegistryNames
       THEN /\ mainpc' = "preflight"
            /\ UNCHANGED <<ret, mainTxBlobs>>
       ELSE Return("err", "unknown-module", 0)
    /\ UNCHANGED <<nWorkers, spawned, joined, received, total, inputRead, outputCreated, lineCount>>
    /\ UNCHANGED <<helperVars, cliVars, readerVars, workerVars, writerVars, lineQ, blobQ, countQ, faults>>

\* main.rs:81-88: metadata, count_lines_any (first pass over the file), worker count
Preflight ==
    /\ mainpc = "preflight"
    /\ \E outcome \in (IF MayFail THEN {"ok", "metadata", "open", "read"} ELSE {"ok"}) :
         /\ inputRead' = (outcome \in {"ok", "read"})
         /\ faults' = IF outcome = "ok" THEN faults ELSE faults + 1
         /\ IF outcome = "ok"
            THEN /\ lineCount' = CountLinesAny(content)
                 /\ nWorkers' = ResolveWorkers(workersArg)
                 /\ mainpc' = "create_out"
                 /\ UNCHANGED <<ret, mainTxBlobs>>
            ELSE /\ Return("err", "preflight-" \o outcome, 0)
                 /\ UNCHANGED <<lineCount, nWorkers>>
    /\ UNCHANGED <<spawned, joined, received, total, outputCreated>>
    /\ UNCHANGED <<helperVars, cliVars, readerVars, workerVars, writerVars, lineQ, blobQ, countQ>>

\* main.rs:100-105: File::create(output)
CreateOut ==
    /\ mainpc = "create_out"
    /\ \E ok \in Outcomes :
         /\ faults' = IF ok THEN faults ELSE faults + 1
         /\ IF ok
            THEN /\ outputCreated' = TRUE
                 /\ mainpc' = "spawn_writer"
                 /\ UNCHANGED <<ret, mainTxBlobs>>
            ELSE /\ Return("err", "create", 0)
                 /\ UNCHANGED outputCreated
    /\ UNCHANGED <<nWorkers, spawned, joined, received, total, inputRead, lineCount>>
    /\ UNCHANGED <<helperVars, cliVars, readerVars, workerVars, writerVars, lineQ, blobQ, countQ>>

\* core.rs:89: thread::spawn of the writer
SpawnWriter ==
    /\ mainpc = "spawn_writer"
    /\ wrpc' = "recv"
    /\ mainpc' = "spawn_workers"
    /\ UNCHANGED <<nWorkers, spawned, joined, received, total, ret, mainTxBlobs,
                   inputRead, outputCreated, lineCount>>
    /\ UNCHANGED <<wbuf, wrres, sink, sinkBroken, takenBlobs>>
    /\ UNCHANGED <<helperVars, cliVars, readerVars, workerVars, lineQ, blobQ, countQ, faults>>

\* core.rs:104-142: one iteration of the spawn loop
SpawnWorker ==
    /\ mainpc = "spawn_workers"
    /\ spawned < nWorkers
    /\ spawned' = spawned + 1
    /\ wpc' = [wpc EXCEPT ![spawned + 1] = "recv"]
    /\ UNCHANGED <<mainpc, nWorkers, joined, received, total, ret, mainTxBlobs,
                   inputRead, outputCreated, lineCount>>
    /\ UNCHANGED <<wblob, wlines, wcount, sentBlobs, dequeued>>
    /\ UNCHANGED <<helperVars, cliVars, readerVars, writerVars, lineQ, blobQ, countQ, faults>>

\* core.rs:146: thread::spawn of the reader, after the last worker
SpawnReader ==
    /\ mainpc = "spawn_workers"
    /\ spawned = nWorkers
    /\ rpc' = "open"
    /\ mainpc' = "join_reader"
    /\ UNCHANGED <<nWorkers, spawned, joined, received, total, ret, mainTxBlobs,
                   inputRead, outputCreated, lineCount>>
    /\ UNCHANGED <<rpos, rbuf, rres, enqueued>>
    /\ UNCHANGED <<helperVars, cliVars, workerVars, writerVars, lineQ, blobQ, countQ, faults>>

\* core.rs:163-165: reader_handle.join()??  returns at once on a reader error
JoinReader ==
    /\ mainpc = "join_reader"
    /\ rpc = "done"
    /\ IF rres = "ok"
       THEN /\ mainpc' = "join_workers"
            /\ UNCHANGED <<ret, mainTxBlobs>>
       ELSE Return("err", "reader", 0)
    /\ UNCHANGED <<nWorkers, spawned, joined, received, total, inputRead, outputCreated, lineCount>>
    /\ UNCHANGED <<helperVars, cliVars, readerVars, workerVars, writerVars, lineQ, blobQ, countQ, faults>>

\* core.rs:167-169: let _ = h.join(), one handle at a time, a panic is ignored
JoinWorker ==
    /\ mainpc = "join_workers"
    /\ joined < nWorkers
    /\ WorkerTerminated(joined + 1)
    /\ joined' = joined + 1
    /\ UNCHANGED <<mainpc, nWorkers, spawned, received, total, ret, mainTxBlobs,
                   inputRead, outputCreated, lineCount>>
    /\ UNCHANGED <<helperVars, cliVars, readerVars, workerVars, writerVars, lineQ, blobQ, countQ, faults>>

\* core.rs:170: drop(tx_blobs)
DropTxBlobs ==
    /\ mainpc = "join_workers"
    /\ joined = nWorkers
    /\ mainTxBlobs' = FALSE
    /\ mainpc' = "recv_counts"
    /\ UNCHANGED <<nWorkers, spawned, joined, received, total, ret,
                   inputRead, outputCreated, lineCount>>
    /\ UNCHANGED <<helperVars, cliVars, readerVars, workerVars, writerVars, lineQ, blobQ, countQ, faults>>

\* core.rs:173-177: one rx_counts.recv(); it blocks while the channel is empty,
\* because main itself still owns the original tx_counts
RecvCount ==
    /\ mainpc = "recv_counts"
    /\ received < nWorkers
    /\ countQ # <<>>
    /\ total' = total + Head(countQ)
    /\ countQ' = Tail(countQ)
    /\ received' = received + 1
    /\ UNCHANGED <<mainpc, nWorkers, spawned, joined, ret, mainTxBlobs,
                   inputRead, outputCreated, lineCount>>
    /\ UNCHANGED <<helperVars, cliVars, readerVars, workerVars, writerVars, lineQ, blobQ, faults>>

\* core.rs:179-182: writer_handle.join()??, then Ok(total)
JoinWriter ==
    /\ mainpc = "recv_counts"
    /\ received = nWorkers
    /\ wrpc = "done"
    /\ IF wrres = "ok" THEN Return("ok", "none", total) ELSE Return("err", "writer", 0)
    /\ UNCHANGED <<nWorkers, spawned, joined, received, total, inputRead, outputCreated, lineCount>>
    /\ UNCHANGED <<helperVars, cliVars, readerVars, workerVars, writerVars, lineQ, blobQ, countQ, faults>>

(* ---------------------------- reader thread --------------------------- *)

\* core.rs:147: open_maybe_gz_bufread(..)?  (second open of the file)
ReaderOpen ==
    /\ ProcessAlive
    /\ rpc = "open"
    /\ \E ok \in Outcomes :
         /\ faults' = IF ok THEN faults ELSE faults + 1
         /\ IF ok
            THEN /\ rpc' = "read"
                 /\ rres' = rres
            ELSE /\ rpc' = "done"
                 /\ rres' = "err"
    /\ UNCHANGED <<rpos, rbuf, enqueued>>
    /\ UNCHANGED <<helperVars, cliVars, mainVars, workerVars, writerVars, lineQ, blobQ, countQ>>

\* core.rs:150-154: buf.clear(); read_until(b'\n', &mut buf)?; break at n == 0
ReaderRead ==
    /\ ProcessAlive
    /\ rpc = "read"
    /\ \E ok \in Outcomes :
         /\ faults' = IF ok THEN faults ELSE faults + 1
         /\ IF ok
            THEN LET line == ReadUntil(content, rpos)
                 IN /\ rbuf' = line
                    /\ rpos' = rpos + Len(line)
                    /\ IF Len(line) = 0
                       THEN /\ rpc' = "done"
                            /\ rres' = "ok"
                       ELSE /\ rpc' = "send"
                            /\ rres' = rres
            ELSE /\ rpc' = "done"
                 /\ rres' = "err"
                 /\ UNCHANGED <<rpos, rbuf>>
    /\ UNCHANGED enqueued
    /\ UNCHANGED <<helperVars, cliVars, mainVars, workerVars, writerVars, lineQ, blobQ, countQ>>

\* core.rs:155-157: tx_lines.send(buf.clone()); blocks while the queue is full
\* and a receiver is alive, fails once every receiver is gone
ReaderSend ==
    /\ ProcessAlive
    /\ rpc = "send"
    /\ IF ~LinesRxAlive
       THEN /\ rpc' = "done"
            /\ rres' = "ok"
            /\ UNCHANGED <<lineQ, enqueued>>
       ELSE /\ ChanHasRoom(lineQ, LinesCap)
            /\ lineQ' = ChanSend(lineQ, rbuf)
            /\ enqueued' = Append(enqueued, rbuf)
            /\ rpc' = "read"
            /\ rres' = rres
    /\ UNCHANGED <<rpos, rbuf>>
    /\ UNCHANGED <<helperVars, cliVars, mainVars, workerVars, writerVars, blobQ, countQ, faults>>

(* ---------------------------- worker threads -------------------------- *)

\* the loop body with a slip: a new record is put in front of the blob
ProcessLine_PrependsRecord(line, blob, lines, count) ==
    IF Utf8Ok(line)
    THEN LET r == ProcessLineToBuf(Normalize(line), <<>>)
         IN IF r.emitted
            THEN [blob |-> r.out \o blob, lines |-> lines + 1, count |-> count + 1]
            ELSE [blob |-> blob, lines |-> lines, count |-> count]
    ELSE [blob |-> blob, lines |-> lines, count |-> count]

\* the loop body with a slip: a line that fails to decode is counted
ProcessLine_CountsUndecodable(line, blob, lines, count) ==
    IF Utf8Ok(line)
    THEN LET r == ProcessLineToBuf(Normalize(line), blob)
         IN IF r.emitted
            THEN [blob |-> r.out, lines |-> lines + 1, count |-> count + 1]
            ELSE [blob |-> r.out, lines |-> lines, count |-> count]
    ELSE [blob |-> blob, lines |-> lines, count |-> count + 1]

\* the loop body with a slip: the counters move whatever the parser returns
ProcessLine_CountsEveryLine(line, blob, lines, count) ==
    IF Utf8Ok(line)
    THEN [blob |-> ProcessLineToBuf(Normalize(line), blob).out,
          lines |-> lines + 1, count |-> count + 1]
    ELSE [blob |-> blob, lines |-> lines, count |-> count]

\* core.rs:116-127: the body of the loop for one dequeued line
ProcessLine(line, blob, lines, count) ==
    IF Utf8Ok(line)
    THEN LET r == ProcessLineToBuf(Normalize(line), blob)
         IN IF r.emitted
            THEN [blob |-> r.out, lines |-> lines + 1, count |-> count + 1]
            ELSE [blob |-> r.out, lines |-> lines, count |-> count]
    ELSE [blob |-> blob, lines |-> lines, count |-> count]

\* the flush condition with a slip: the record threshold is tested with >
MustFlush_CountLate(blob, lines) == Len(blob) >= BYTES_BLOB_TARGET \/ lines > LINES_BLOB_MAX

\* core.rs:128: the flush condition
MustFlush(blob, lines) == Len(blob) >= BYTES_BLOB_TARGET \/ lines >= LINES_BLOB_MAX

\* core.rs:115-128: rx.iter() yields a line, the line is processed, the
\* thresholds are tested; the transformation may panic
WorkerRecv(w) ==
    /\ ProcessAlive
    /\ wpc[w] = "recv"
    /\ lineQ # <<>>
    /\ lineQ' = Tail(lineQ)
    /\ \E ok \in (IF Utf8Ok(Head(lineQ)) THEN Outcomes ELSE {TRUE}) :
         /\ faults' = IF ok THEN faults ELSE faults + 1
         /\ IF ok
            THEN LET r == ProcessLine(Head(lineQ), wblob[w], wlines[w], wcount[w])
                 IN /\ wblob' = [wblob EXCEPT ![w] = r.blob]
                    /\ wlines' = [wlines EXCEPT ![w] = r.lines]
                    /\ wcount' = [wcount EXCEPT ![w] = r.count]
                    /\ wpc' = [wpc EXCEPT ![w] = IF MustFlush(r.blob, r.lines) THEN "flush" ELSE "recv"]
            ELSE /\ wpc' = [wpc EXCEPT ![w] = "panicked"]
                 /\ wblob' = [wblob EXCEPT ![w] = <<>>]
                 /\ UNCHANGED <<wlines, wcount>>
    /\ dequeued' = Append(dequeued, Head(lineQ))
    /\ UNCHANGED sentBlobs
    /\ UNCHANGED <<helperVars, cliVars, mainVars, readerVars, writerVars, blobQ, countQ>>

\* core.rs:115,135: rx.iter() ends: the queue is empty and tx_lines is dropped
WorkerEnd(w) ==
    /\ ProcessAlive
    /\ wpc[w] = "recv"
    /\ lineQ = <<>>
    /\ ~LinesTxAlive
    /\ wpc' = [wpc EXCEPT ![w] = "final"]
    /\ UNCHANGED <<wblob, wlines, wcount, sentBlobs, dequeued>>
    /\ UNCHANGED <<helperVars, cliVars, mainVars, readerVars, writerVars, lineQ, blobQ, countQ, faults>>

\* the threshold flush with a slip: after a failed send the loop goes on
WorkerFlush_Continues(w) ==
    /\ ProcessAlive
    /\ wpc[w] = "flush"
    /\ IF ~BlobsRxAlive
       THEN /\ wpc' = [wpc EXCEPT ![w] = "recv"]
            /\ wlines' = [wlines EXCEPT ![w] = 0]
            /\ UNCHANGED <<blobQ, sentBlobs>>
       ELSE /\ ChanHasRoom(blobQ, BlobsCap)
            /\ blobQ' = ChanSend(blobQ, wblob[w])
            /\ sentBlobs' = Append(sentBlobs, wblob[w])
            /\ wlines' = [wlines EXCEPT ![w] = 0]
            /\ wpc' = [wpc EXCEPT ![w] = "recv"]
    /\ wblob' = [wblob EXCEPT ![w] = <<>>]
    /\ UNCHANGED <<wcount, dequeued>>
    /\ UNCHANGED <<helperVars, cliVars, mainVars, readerVars, writerVars, lineQ, countQ, faults>>

\* core.rs:129-133: tx_b.send(mem::take(&mut blob)); break when it fails
WorkerFlush(w) ==
    /\ ProcessAlive
    /\ wpc[w] = "flush"
    /\ IF ~BlobsRxAlive
       THEN /\ wpc' = [wpc EXCEPT ![w] = "final"]
            /\ UNCHANGED <<blobQ, sentBlobs, wlines>>
       ELSE /\ ChanHasRoom(blobQ, BlobsCap)
            /\ blobQ' = ChanSend(blobQ, wblob[w])
            /\ sentBlobs' = Append(sentBlobs, wblob[w])
            /\ wlines' = [wlines EXCEPT ![w] = 0]
            /\ wpc' = [wpc EXCEPT ![w] = "recv"]
    /\ wblob' = [wblob EXCEPT ![w] = <<>>]
    /\ UNCHANGED <<wcount, dequeued>>
    /\ UNCHANGED <<helperVars, cliVars, mainVars, readerVars, writerVars, lineQ, countQ, faults>>

\* the remainder test with a slip: the remainder is never sent
HasRemainder_Never(blob) == FALSE

\* core.rs:137: !blob.is_empty()
HasRemainder(blob) == blob # <<>>

\* core.rs:137-139: the non-empty remainder is sent, the result is ignored
WorkerFinal(w) ==
    /\ ProcessAlive
    /\ wpc[w] = "final"
    /\ IF ~HasRemainder(wblob[w])
       THEN UNCHANGED <<blobQ, sentBlobs>>
       ELSE IF ~BlobsRxAlive
            THEN UNCHANGED <<blobQ, sentBlobs>>
            ELSE /\ ChanHasRoom(blobQ, BlobsCap)
                 /\ blobQ' = ChanSend(blobQ, wblob[w])
                 /\ sentBlobs' = Append(sentBlobs, wblob[w])
    /\ wblob' = [wblob EXCEPT ![w] = <<>>]
    /\ wpc' = [wpc EXCEPT ![w] = "count"]
    /\ UNCHANGED <<wlines, wcount, dequeued>>
    /\ UNCHANGED <<helperVars, cliVars, mainVars, readerVars, writerVars, lineQ, countQ, faults>>

\* core.rs:140-141: let _ = tx_c.send(local_count); the thread ends
WorkerCount(w) ==
    /\ ProcessAlive
    /\ wpc[w] = "count"
    /\ IF ~CountsRxAlive
       THEN countQ' = countQ
       ELSE /\ ChanHasRoom(countQ, CountsCap)
            /\ countQ' = ChanSend(countQ, wcount[w])
    /\ wpc' = [wpc EXCEPT ![w] = "done"]
    /\ UNCHANGED <<wblob, wlines, wcount, sentBlobs, dequeued>>
    /\ UNCHANGED <<helperVars, cliVars, mainVars, readerVars, writerVars, lineQ, blobQ, faults>>

(* ---------------------------- writer thread --------------------------- *)

\* Write::write_all on the sink: everything is written, or a prefix is and the
\* sink fails from then on, or the sink panics
SinkWriteAll(snk, broken, data, mayFail) ==
    IF data = <<>> THEN { [sink |-> snk, broken |-> broken, res |-> "ok"] }
    ELSE IF broken THEN { [sink |-> snk, broken |-> TRUE, res |-> "err"] }
    ELSE IF ~mayFail THEN { [sink |-> snk \o data, broken |-> FALSE, res |-> "ok"] }
    ELSE { [sink |-> snk \o data, broken |-> FALSE, res |-> "ok"] }
         \cup { [sink |-> snk \o SubSeq(data, 1, n), broken |-> TRUE, res |-> "err"] :
                  n \in 0..(IF Len(data) - 1 < MaxPartial THEN Len(data) - 1 ELSE MaxPartial) }
         \cup { [sink |-> snk, broken |-> FALSE, res |-> "panic"] }

\* BufWriter::flush_buf: the buffered bytes go to the sink
FlushBuf(buf, snk, broken, mayFail) ==
    { [buf |-> IF o.res = "ok" THEN <<>> ELSE buf, sink |-> o.sink, broken |-> o.broken, res |-> o.res] :
        o \in SinkWriteAll(snk, broken, buf, mayFail) }

\* BufWriter::write_all(&blob) (core.rs:92): copy when the blob fits in the
\* spare capacity; otherwise flush the buffer if the blob exceeds the spare
\* capacity, then write a blob of at least the capacity straight to the sink
BufWriteAll(buf, snk, broken, blob, mayFail) ==
    IF Len(blob) < WRITER_BUF - Len(buf)
    THEN { [buf |-> buf \o blob, sink |-> snk, broken |-> broken, res |-> "ok"] }
    ELSE LET flushed == IF Len(blob) > WRITER_BUF - Len(buf)
                        THEN FlushBuf(buf, snk, broken, mayFail)
                        ELSE { [buf |-> buf, sink |-> snk, broken |-> broken, res |-> "ok"] }
         IN UNION { IF f.res # "ok" THEN { f }
                    ELSE IF Len(blob) >= WRITER_BUF
                    THEN { [buf |-> f.buf, sink |-> o.sink, broken |-> o.broken, res |-> o.res] :
                             o \in SinkWriteAll(f.sink, f.broken, blob, mayFail) }
                    ELSE { [buf |-> f.buf \o blob, sink |-> f.sink, broken |-> f.broken, res |-> "ok"] }
                  : f \in flushed }

\* core.rs:91-93: one iteration of the writer loop; an error or a panic ends
\* the thread, which drops rx_blobs and the BufWriter
WriterRecv ==
    /\ ProcessAlive
    /\ wrpc = "recv"
    /\ blobQ # <<>>
    /\ blobQ' = Tail(blobQ)
    /\ takenBlobs' = Append(takenBlobs, Head(blobQ))
    /\ \E o \in BufWriteAll(wbuf, sink, sinkBroken, Head(blobQ), MayFail) :
         /\ faults' = IF o.res = "ok" THEN faults ELSE faults + 1
         /\ sink' = o.sink
         /\ sinkBroken' = o.broken
         /\ IF o.res = "ok"
            THEN /\ wbuf' = o.buf
                 /\ UNCHANGED <<wrpc, wrres>>
            ELSE /\ wbuf' = <<>>
                 /\ wrpc' = "done"
                 /\ wrres' = o.res
    /\ UNCHANGED <<helperVars, cliVars, mainVars, readerVars, workerVars, lineQ, countQ>>

\* the final flush with a slip: an empty queue is taken for a closed one
WriterFlush_Eager ==
    /\ ProcessAlive
    /\ wrpc = "recv"
    /\ blobQ = <<>>
    /\ \E o \in FlushBuf(wbuf, sink, sinkBroken, MayFail) :
         /\ faults' = IF o.res = "ok" THEN faults ELSE faults + 1
         /\ sink' = o.sink
         /\ sinkBroken' = o.broken
         /\ wrres' = o.res
    /\ wbuf' = <<>>
    /\ wrpc' = "done"
    /\ UNCHANGED takenBlobs
    /\ UNCHANGED <<helperVars, cliVars, mainVars, readerVars, workerVars, lineQ, blobQ, countQ>>

\* core.rs:91,94-95: rx_blobs.iter() ends (queue empty, every tx_blobs dropped),
\* then w.flush()?
WriterFlush ==
    /\ ProcessAlive
    /\ wrpc = "recv"
    /\ blobQ = <<>>
    /\ ~BlobsTxAlive
    /\ \E o \in FlushBuf(wbuf, sink, sinkBroken, MayFail) :
         /\ faults' = IF o.res = "ok" THEN faults ELSE faults + 1
         /\ sink' = o.sink
         /\ sinkBroken' = o.broken
         /\ wrres' = o.res
    /\ wbuf' = <<>>
    /\ wrpc' = "done"
    /\ UNCHANGED takenBlobs
    /\ UNCHANGED <<helperVars, cliVars, mainVars, readerVars, workerVars, lineQ, blobQ, countQ>>

(* ---------------------------- specification --------------------------- *)

Next ==
    \/ Lookup
    \/ Preflight
    \/ CreateOut
    \/ SpawnWriter
    \/ SpawnWorker
    \/ SpawnReader
    \/ JoinReader
    \/ JoinWorker
    \/ DropTxBlobs
    \/ RecvCount
    \/ JoinWriter
    \/ ReaderOpen
    \/ ReaderRead
    \/ ReaderSend
    \/ \E w \in Workers : WorkerRecv(w)
    \/ \E w \in Workers : WorkerEnd(w)
    \/ \E w \in Workers : WorkerFlush(w)
    \/ \E w \in Workers : WorkerFinal(w)
    \/ \E w \in Workers : WorkerCount(w)
    \/ WriterRecv
    \/ WriterFlush

Spec == Init /\ [][Next]_vars

\* the runs in which the environment injects no fault: every open, read and
\* write succeeds and the transformation does not panic
NextReliable ==
    \/ Lookup /\ faults' = faults
    \/ Preflight /\ faults' = faults
    \/ CreateOut /\ faults' = faults
    \/ SpawnWriter /\ faults' = faults
    \/ SpawnWorker /\ faults' = faults
    \/ SpawnReader /\ faults' = faults
    \/ JoinReader /\ faults' = faults
    \/ JoinWorker /\ faults' = faults
    \/ DropTxBlobs /\ faults' = faults
    \/ RecvCount /\ faults' = faults
    \/ JoinWriter /\ faults' = faults
    \/ ReaderOpen /\ faults' = faults
    \/ ReaderRead /\ faults' = faults
    \/ ReaderSend /\ faults' = faults
    \/ \E w \in Workers : WorkerRecv(w) /\ faults' = faults
    \/ \E w \in Workers : WorkerEnd(w) /\ faults' = faults
    \/ \E w \in Workers : WorkerFlush(w) /\ faults' = faults
    \/ \E w \in Workers : WorkerFinal(w) /\ faults' = faults
    \/ \E w \in Workers : WorkerCount(w) /\ faults' = faults
    \/ WriterRecv /\ faults' = faults
    \/ WriterFlush /\ faults' = faults

\* some runnable thread is eventually scheduled
ReliableSpec == Init /\ [][NextReliable]_vars /\ WF_vars(NextReliable)

(* ----------------- helper functions called on their own ---------------- *)

RECURSIVE BytesOfLen(_, _)
\* all byte sequences of length n over the bytes in S
BytesOfLen(S, n) ==
    IF n = 0 THEN { <<>> }
    ELSE { <<b>> \o t : b \in S, t \in BytesOfLen(S, n - 1) }

\* the files explored: every mix of the two magic bytes and another byte
Files == UNION { BytesOfLen({GZ1, GZ2, LA}, n) : n \in 0..MaxFileLen }

\* the Lines the reader can enqueue (core.rs:151-155): non-empty, NL nowhere but
\* at the end; here with carriage returns anywhere
ReaderLines ==
    { b \o t : b \in UNION { BytesOfLen({LA, CR}, n) : n \in 0..MaxLineLen },
               t \in { <<>>, <<NL>> } } \ { <<>> }

\* the contents count_lines_any is run on: every mix of NL and another byte
CountInputs == UNION { BytesOfLen({LA, NL}, n) : n \in 0..MaxCountLen }

\* the two functions of core.rs:30-60
Openers == { "open_maybe_gz_bufread", "open_maybe_gz_read" }

\* one helper function is about to be called; the pipeline is not running
HelperInit ==
    /\ content = <<>>
    /\ module = "csv-dummy"
    /\ workersArg = <<>>
    /\ mainpc = "lookup"
    /\ nWorkers = 0
    /\ spawned = 0
    /\ joined = 0
    /\ received = 0
    /\ total = 0
    /\ ret = [kind |-> "none", origin |-> "none", count |-> 0]
    /\ mainTxBlobs = TRUE
    /\ inputRead = FALSE
    /\ outputCreated = FALSE
    /\ lineCount = -1
    /\ rpc = "unborn"
    /\ rpos = 0
    /\ rbuf = <<>>
    /\ rres = "none"
    /\ enqueued = <<>>
    /\ lineQ = <<>>
    /\ blobQ = <<>>
    /\ countQ = <<>>
    /\ wpc = [w \in Workers |-> "unborn"]
    /\ wblob = [w \in Workers |-> <<>>]
    /\ wlines = [w \in Workers |-> 0]
    /\ wcount = [w \in Workers |-> 0]
    /\ wrpc = "unborn"
    /\ wbuf = <<>>
    /\ wrres = "none"
    /\ sink = <<>>
    /\ sinkBroken = FALSE
    /\ sentBlobs = <<>>
    /\ dequeued = <<>>
    /\ takenBlobs = <<>>
    /\ faults = 0
    /\ fhPos = 0
    /\ magic = <<ZERO, ZERO>>
    /\ nRead = -1
    /\ opened = "none"
    /\ text = <<>>
    /\ countTotal = 0
    /\ \/ /\ upc = "open"
          /\ opener \in Openers
          /\ fhBytes \in Files
          /\ lineBytes = <<>>
       \/ /\ upc = "decode"
          /\ opener = "none"
          /\ fhBytes = <<>>
          /\ lineBytes \in ReaderLines
       \/ /\ upc = "count_open"
          /\ opener = "none"
          /\ fhBytes \in CountInputs
          /\ lineBytes = <<>>

\* core.rs:31, 49: File::open(path)?
OpenFile ==
    /\ upc = "open"
    /\ \E ok \in Outcomes :
         /\ faults' = IF ok THEN faults ELSE faults + 1
         /\ upc' = IF ok THEN "read_magic" ELSE "done"
         /\ opened' = IF ok THEN opened ELSE "err"
    /\ UNCHANGED <<opener, fhBytes, fhPos, magic, nRead, lineBytes, text, countTotal>>
    /\ UNCHANGED pipelineVars

\* how many bytes one read() into a buffer of `want` bytes may return when
\* `left` bytes remain: 0 only at end of file, otherwise at least one
ReadCounts(left, want) ==
    IF left = 0 THEN {0} ELSE 1..(IF left < want THEN left ELSE want)

\* core.rs:34-35, 51-52: let n = fh.read(&mut magic)?
ReadMagic ==
    /\ upc = "read_magic"
    /\ \E ok \in Outcomes :
         /\ faults' = IF ok THEN faults ELSE faults + 1
         /\ IF ok
            THEN \E n \in ReadCounts(Len(fhBytes) - fhPos, 2) :
                   /\ nRead' = n
                   /\ magic' = [i \in 1..2 |-> IF i <= n THEN fhBytes[fhPos + i] ELSE magic[i]]
                   /\ fhPos' = fhPos + n
                   /\ upc' = "rewind"
                   /\ opened' = opened
            ELSE /\ upc' = "done"
                 /\ opened' = "err"
                 /\ UNCHANGED <<nRead, magic, fhPos>>
    /\ UNCHANGED <<opener, fhBytes, lineBytes, text, countTotal>>
    /\ UNCHANGED pipelineVars

\* core.rs:36, 53: fh.rewind()?
Rewind ==
    /\ upc = "rewind"
    /\ \E ok \in Outcomes :
         /\ faults' = IF ok THEN faults ELSE faults + 1
         /\ upc' = IF ok THEN "wrap" ELSE "done"
         /\ fhPos' = IF ok THEN 0 ELSE fhPos
         /\ opened' = IF ok THEN opened ELSE "err"
    /\ UNCHANGED <<opener, fhBytes, magic, nRead, lineBytes, text, countTotal>>
    /\ UNCHANGED pipelineVars

\* the magic test with a slip: the first byte decides
IsGzipMagic_FirstByteOnly(n, m) == n >= 1 /\ m[1] = GZ1

\* core.rs:38, 55: n == 2 && magic == [0x1F, 0x8B]
IsGzipMagic(n, m) == n = 2 /\ m = <<GZ1, GZ2>>

\* core.rs:38-43, 55-59: a GzDecoder around fh, or fh itself
Wrap ==
    /\ upc = "wrap"
    /\ opened' = IF IsGzipMagic(nRead, magic) THEN "gzip" ELSE "raw"
    /\ upc' = "done"
    /\ UNCHANGED <<opener, fhBytes, fhPos, magic, nRead, lineBytes, text, countTotal, faults>>
    /\ UNCHANGED pipelineVars

\* core.rs:116-123: the line decodes; it is stripped and handed to the
\* transformation
Strip ==
    /\ upc = "decode"
    /\ Utf8Ok(lineBytes)
    /\ text' = Normalize(lineBytes)
    /\ upc' = "call"
    /\ UNCHANGED <<opener, fhBytes, fhPos, magic, nRead, opened, lineBytes, countTotal, faults>>
    /\ UNCHANGED pipelineVars

\* core.rs:211: open_maybe_gz_read(path)?
CountOpen ==
    /\ upc = "count_open"
    /\ \E ok \in Outcomes :
         /\ faults' = IF ok THEN faults ELSE faults + 1
         /\ upc' = IF ok THEN "count_read" ELSE "done"
         /\ opened' = IF ok THEN opened ELSE "err"
    /\ UNCHANGED <<opener, fhBytes, fhPos, magic, nRead, lineBytes, text, countTotal>>
    /\ UNCHANGED pipelineVars

\* the chunk count with a slip: a NL that ends the chunk is missed
NewlinesIn_MissesLast(chunk) ==
    Cardinality({ i \in 1..(Len(chunk) - 1) : chunk[i] = NL })

\* core.rs:220: memchr_iter(b'\n', &buf[..n]).count()
NewlinesIn(chunk) == Cardinality({ i \in 1..Len(chunk) : chunk[i] = NL })

\* core.rs:215-222: one turn of the loop: a block read of up to COUNT_BUF
\* bytes; Ok(total) at n == 0, otherwise the NL bytes of the block are added
CountRead ==
    /\ upc = "count_read"
    /\ \E ok \in Outcomes :
         /\ faults' = IF ok THEN faults ELSE faults + 1
         /\ IF ok
            THEN \E n \in ReadCounts(Len(fhBytes) - fhPos, COUNT_BUF) :
                   /\ nRead' = n
                   /\ fhPos' = fhPos + n
                   /\ countTotal' = countTotal + NewlinesIn(SubSeq(fhBytes, fhPos + 1, fhPos + n))
                   /\ upc' = IF n = 0 THEN "counted" ELSE "count_read"
                   /\ opened' = opened
            ELSE /\ upc' = "done"
                 /\ opened' = "err"
                 /\ UNCHANGED <<nRead, fhPos, countTotal>>
    /\ UNCHANGED <<opener, fhBytes, magic, lineBytes, text>>
    /\ UNCHANGED pipelineVars

HelperNext ==
    \/ OpenFile
    \/ ReadMagic
    \/ Rewind
    \/ Wrap
    \/ Strip
    \/ CountOpen
    \/ CountRead

HelperSpec == HelperInit /\ [][HelperNext]_vars

(* ------------------------ sequential reference ------------------------ *)

RECURSIVE SplitAtNL(_, _)
\* the pieces of c, each ending at a NL, the last one possibly unterminated;
\* cur is the piece being collected
SplitAtNL(c, cur) ==
    IF c = <<>> THEN (IF cur = <<>> THEN <<>> ELSE <<cur>>)
    ELSE IF Head(c) = NL THEN <<cur \o <<NL>>>> \o SplitAtNL(Tail(c), <<>>)
    ELSE SplitAtNL(Tail(c), cur \o <<Head(c)>>)

\* the lines of the input file
InputLines == SplitAtNL(content, <<>>)

\* the transformation applied to one input line on its own
SeqRecord(line) ==
    IF Utf8Ok(line) THEN ProcessLineToBuf(Normalize(line), <<>>)
    ELSE [emitted |-> FALSE, out |-> <<>>]

\* the number of lines for which the transformation returns true
ExpectedCount == Cardinality({ i \in 1..Len(InputLines) : SeqRecord(InputLines[i]).emitted })

\* what a single thread appends, line after line
ExpectedOutput == Concat([i \in 1..Len(InputLines) |-> SeqRecord(InputLines[i]).out])

Occurrences(seq, x) == Cardinality({ i \in 1..Len(seq) : seq[i] = x })
\* the two sequences hold the same elements the same number of times
SameBag(s1, s2) ==
    /\ Len(s1) = Len(s2)
    /\ \A i \in 1..Len(s1) : Occurrences(s1, s1[i]) = Occurrences(s2, s1[i])

SpawnedWorkers == 1..nWorkers
NoThreadStarted ==
    /\ rpc = "unborn"
    /\ wrpc = "unborn"
    /\ \A w \in Workers : wpc[w] = "unborn"
AllThreadsTerminated ==
    /\ rpc = "done"
    /\ wrpc = "done"
    /\ \A w \in SpawnedWorkers : WorkerTerminated(w)

(* ------------------------------- claims ------------------------------- *)

\* C1 count conservation: when the run returns Ok(total), total is the number
\* of input lines for which the transformation, applied line by line, returns
\* true; it depends on the content only, not on the worker count or schedule
CountConservation ==
    ret.kind = "ok" => ret.count = ExpectedCount

\* a successful run with two workers that both emitted, on an input that also
\* holds an undecodable line and a line the transformation declines
CountConservationWitness ==
    /\ ret.kind = "ok"
    /\ nWorkers = 2
    /\ wcount[1] > 0 /\ wcount[2] > 0
    /\ \E i \in 1..Len(InputLines) : ~Utf8Ok(InputLines[i])
    /\ \E i \in 1..Len(InputLines) : Utf8Ok(InputLines[i]) /\ ~SeqRecord(InputLines[i]).emitted

NoLossNoDuplication ==
    ret.kind = "ok" =>
        /\ SameBag(SplitAtNL(sink, <<>>), SplitAtNL(ExpectedOutput, <<>>))
        /\ takenBlobs = sentBlobs
        /\ sink = Concat(sentBlobs)
        /\ blobQ = <<>>
        /\ \A w \in Workers : wblob[w] = <<>>

\* a successful two-worker run whose output is out of input order and which
\* flushed a remainder (a blob below both thresholds)
NoLossWitness ==
    /\ ret.kind = "ok"
    /\ nWorkers = 2
    /\ sink # ExpectedOutput
    /\ \E i \in 1..Len(sentBlobs) :
         /\ Len(sentBlobs[i]) < BYTES_BLOB_TARGET
         /\ Len(SplitAtNL(sentBlobs[i], <<>>)) < LINES_BLOB_MAX

\* C4 graceful early shutdown, as claimed: once the sink has failed a write the
\* run never gets stuck; it keeps moving until it has returned an error with
\* every thread terminated
SinkFailureTerminates ==
    sinkBroken => \/ ENABLED Next
                  \/ ret.kind = "err" /\ AllThreadsTerminated

\* C5 backpressure: the queues never exceed workers*factor; a producer facing
\* a full queue cannot proceed and keeps its item; nothing sent is lost
Backpressure ==
    /\ Len(lineQ) <= nWorkers * LINES_CHAN_FACTOR
    /\ Len(blobQ) <= nWorkers * BLOBS_CHAN_FACTOR
    /\ enqueued = dequeued \o lineQ
    /\ sentBlobs = takenBlobs \o blobQ
    /\ (rpc = "send" => Concat(enqueued) \o rbuf = SubSeq(content, 1, rpos))
    /\ (rpc = "send" /\ Len(lineQ) = nWorkers * LINES_CHAN_FACTOR => ~ENABLED ReaderSend)
    /\ \A w \in Workers :
         (wpc[w] = "flush" /\ BlobsRxAlive /\ Len(blobQ) = nWorkers * BLOBS_CHAN_FACTOR)
            => ~ENABLED WorkerFlush(w)

\* the reader is blocked with a line in hand on a full line queue while the
\* blob queue is full as well
BackpressureWitness ==
    /\ rpc = "send"
    /\ rbuf # <<>>
    /\ Len(lineQ) = nWorkers * LINES_CHAN_FACTOR
    /\ Len(blobQ) = nWorkers * BLOBS_CHAN_FACTOR
    /\ nWorkers >= 1

\* C6 byte partition: after the reader reached end-of-stream without error the
\* enqueued Lines concatenate to the content, every Line is non-empty, holds
\* NL nowhere but at its end, only the last may lack it, and an unterminated
\* tail is enqueued
ReaderPartition ==
    (rpc = "done" /\ rres = "ok") =>
        /\ Concat(enqueued) = content
        /\ \A i \in 1..Len(enqueued) :
             /\ Len(enqueued[i]) > 0
             /\ \A j \in 1..(Len(enqueued[i]) - 1) : enqueued[i][j] # NL
             /\ (i < Len(enqueued) => enqueued[i][Len(enqueued[i])] = NL)
        /\ (content # <<>> /\ content[Len(content)] # NL) =>
             /\ enqueued # <<>>
             /\ enqueued[Len(enqueued)][Len(enqueued[Len(enqueued)])] # NL

\* the reader finished a file of several lines whose last line is unterminated
ReaderPartitionWitness ==
    /\ rpc = "done"
    /\ rres = "ok"
    /\ Len(enqueued) >= 3
    /\ enqueued[Len(enqueued)][Len(enqueued[Len(enqueued)])] # NL

\* C7 abnormal termination is fatal, as claimed: after a worker or the writer
\* panicked the run never returns Ok and never gets stuck short of an error
PanicIsFatal ==
    ((\E w \in Workers : wpc[w] = "panicked") \/ wrres = "panic") =>
        /\ ret.kind # "ok"
        /\ (ENABLED Next \/ ret.kind = "err")

\* C8 error reporting after teardown, as claimed: when an error of the reader
\* or the writer is returned, reader, workers and writer have terminated and
\* every worker handle has been joined
ErrorAfterTeardown ==
    (ret.kind = "err" /\ ret.origin \in {"reader", "writer"}) =>
        /\ AllThreadsTerminated
        /\ joined = nWorkers

\* C9 source failure before the workers, as claimed: when the run fails on
\* opening or reading the input no worker thread has been started
SourceFailureBeforeWorkers ==
    (ret.kind = "err" /\ ret.origin \in {"preflight-open", "preflight-read", "reader"}) =>
        /\ spawned = 0
        /\ \A w \in Workers : wpc[w] = "unborn"

\* C10 unknown module: the run ends with an error at the lookup; no thread is
\* ever started, the input is never read, the output is never created
UnknownModulePreflight ==
    module \notin RegistryNames =>
        /\ mainpc \in {"lookup", "exit"}
        /\ NoThreadStarted
        /\ ~inputRead
        /\ ~outputCreated
        /\ (mainpc = "exit" => ret.kind = "err" /\ ret.origin = "unknown-module")

\* the unknown module has been reported
UnknownModuleWitness ==
    /\ module \notin RegistryNames
    /\ ret.kind = "err"
    /\ ret.origin = "unknown-module"

\* the number of records a blob holds: every record ends with the one NL in it
RecordsIn(blob) == Cardinality({ i \in 1..Len(blob) : blob[i] = NL })

\* C11 blob flush boundary: after processing a line a worker goes on to send
\* its blob exactly when the blob holds at least BYTES_BLOB_TARGET bytes or at
\* least LINES_BLOB_MAX records; a threshold send leaves the blob empty and the
\* record counter 0; every blob sent is non-empty and holds at most
\* LINES_BLOB_MAX records, and a blob below both thresholds is sent only as the
\* remainder of a worker that has left its loop
BlobFlushBoundary ==
    /\ [](/\ \A w \in Workers :
               /\ wpc[w] \in {"recv", "flush"} => wlines[w] = RecordsIn(wblob[w])
               /\ wpc[w] = "flush" =>
                    (Len(wblob[w]) >= BYTES_BLOB_TARGET \/ wlines[w] >= LINES_BLOB_MAX)
               /\ wpc[w] = "recv" =>
                    (Len(wblob[w]) < BYTES_BLOB_TARGET /\ wlines[w] < LINES_BLOB_MAX)
          /\ \A i \in 1..Len(sentBlobs) :
               /\ sentBlobs[i] # <<>>
               /\ RecordsIn(sentBlobs[i]) <= LINES_BLOB_MAX)
    /\ [][sentBlobs' # sentBlobs =>
            \E w \in Workers :
                /\ wpc'[w] # wpc[w]
                /\ sentBlobs' = Append(sentBlobs, wblob[w])
                /\ wblob'[w] = <<>>
                /\ \/ /\ wpc[w] = "flush"
                      /\ Len(wblob[w]) >= BYTES_BLOB_TARGET \/ wlines[w] >= LINES_BLOB_MAX
                      /\ wlines'[w] = 0
                      /\ wpc'[w] = "recv"
                   \/ /\ wpc[w] = "final"
                      /\ wblob[w] # <<>>
                      /\ Len(wblob[w]) < BYTES_BLOB_TARGET
                      /\ RecordsIn(wblob[w]) < LINES_BLOB_MAX
                      /\ wpc'[w] = "count"]_vars

\* one run sent a blob that reached the byte threshold below the record
\* threshold, a blob that reached the record threshold below the byte
\* threshold, and a remainder below both
BlobFlushWitness ==
    \E i, j, k \in 1..Len(sentBlobs) :
        /\ Len(sentBlobs[i]) >= BYTES_BLOB_TARGET /\ RecordsIn(sentBlobs[i]) < LINES_BLOB_MAX
        /\ Len(sentBlobs[j]) < BYTES_BLOB_TARGET /\ RecordsIn(sentBlobs[j]) = LINES_BLOB_MAX
        /\ Len(sentBlobs[k]) < BYTES_BLOB_TARGET /\ RecordsIn(sentBlobs[k]) < LINES_BLOB_MAX

\* C12 consistent partial output, as claimed: once a write to the sink has
\* failed, the bytes in the sink are a concatenation of whole records of the
\* input, each complete and ended by NL
PartialOutputWholeRecords ==
    sinkBroken =>
        \A i \in 1..Len(SplitAtNL(sink, <<>>)) :
            \E j \in 1..Len(InputLines) :
                /\ SeqRecord(InputLines[j]).emitted
                /\ SplitAtNL(sink, <<>>)[i] = SeqRecord(InputLines[j]).out

\* C13 who appends the terminator: in a step in which the transformation
\* reports success, the worker's blob afterwards is exactly what the
\* transformation left in it; what the transformation appended is one record
\* that ends with NL and holds NL nowhere else, and the core appends nothing
TransformationAppendsTerminator ==
    [][\A w \in Workers :
          wcount'[w] # wcount[w] =>
              LET r == ProcessLineToBuf(Normalize(Head(lineQ)), wblob[w])
                  added == SubSeq(r.out, Len(wblob[w]) + 1, Len(r.out))
              IN /\ r.emitted
                 /\ wblob'[w] = r.out
                 /\ SubSeq(r.out, 1, Len(wblob[w])) = wblob[w]
                 /\ added # <<>>
                 /\ added[Len(added)] = NL
                 /\ \A i \in 1..(Len(added) - 1) : added[i] # NL]_vars

\* a worker holds one record, terminator included, right after a successful call
TransformationAppendsWitness ==
    \E w \in Workers :
        /\ wpc[w] = "recv"
        /\ wcount[w] = 1
        /\ wlines[w] = 1
        /\ wblob[w] = <<LBRACE, LA, RBRACE, NL>>

\* C13 as claimed: in a step in which the transformation reports success, what
\* the transformation appended holds no NL, and the worker's blob afterwards is
\* the transformation's output followed by a NL appended by the core
CoreAppendsTerminator ==
    [][\A w \in Workers :
          wcount'[w] # wcount[w] =>
              LET r == ProcessLineToBuf(Normalize(Head(lineQ)), wblob[w])
                  added == SubSeq(r.out, Len(wblob[w]) + 1, Len(r.out))
              IN /\ r.emitted
                 /\ \A i \in 1..Len(added) : added[i] # NL
                 /\ wblob'[w] = r.out \o <<NL>>]_vars

\* C14 Line Reader early stop, as claimed: once every worker thread has run to
\* its end the reader holding a line to enqueue is never blocked; its enqueue
\* attempt goes through (and fails), whatever the length of the line queue
ReaderEarlyStop ==
    (/\ ProcessAlive
     /\ rpc = "send"
     /\ nWorkers > 0
     /\ spawned = nWorkers
     /\ \A w \in SpawnedWorkers : wpc[w] = "done")
        => ENABLED ReaderSend

\* C15 normal termination: with no fault injected, for every input and every
\* --workers value (absent and 0 included), a run with a registered module
\* eventually returns Ok, with at least one worker, the reader finished at
\* end-of-stream with the whole content enqueued, the line queue drained, every
\* worker ended after sending its remainder and its count, every count
\* received, and the writer ended after writing every blob; no run gets stuck
NormalTermination ==
    /\ []((module \in RegistryNames /\ mainpc \notin {"lookup", "preflight"}) => nWorkers >= 1)
    /\ (module \in RegistryNames) ~>
        (/\ ret.kind = "ok"
         /\ nWorkers >= 1
         /\ rpc = "done" /\ rres = "ok"
         /\ Concat(enqueued) = content
         /\ lineQ = <<>>
         /\ dequeued = enqueued
         /\ \A w \in SpawnedWorkers : wpc[w] = "done" /\ wblob[w] = <<>>
         /\ countQ = <<>> /\ received = nWorkers
         /\ wrpc = "done" /\ wrres = "ok"
         /\ blobQ = <<>>
         /\ wbuf = <<>>
         /\ sink = Concat(sentBlobs))

\* a run asked for 0 workers returned Ok after its one worker sent a threshold
\* blob and a remainder
NormalTerminationWitness ==
    /\ ret.kind = "ok"
    /\ workersArg = <<0>>
    /\ nWorkers = 1
    /\ Len(sentBlobs) >= 2
    /\ faults = 0

\* C16 decode failure: a step in which a worker dequeues a line that is not
\* valid UTF-8 changes nothing but the line queue: every worker's blob, record
\* counter and emitted counter stay as they are, nothing is sent, no fault and
\* no result is raised, and the worker is back at the top of its loop
DecodeFailureNoEffect ==
    [][(dequeued' # dequeued /\ ~Utf8Ok(Head(lineQ))) =>
          /\ lineQ' = Tail(lineQ)
          /\ UNCHANGED <<wblob, wlines, wcount, wpc>>
          /\ UNCHANGED <<sentBlobs, blobQ, countQ>>
          /\ UNCHANGED <<faults, ret, rres, wrres>>
          /\ \E w \in Workers : wpc[w] = "recv" /\ ~MustFlush(wblob[w], wlines[w])]_vars

\* the one worker took a record, then an undecodable line, then another
\* record, and sent the two records together in one blob
DecodeFailureWitness ==
    /\ nWorkers = 1
    /\ Len(dequeued) >= 3
    /\ dequeued[1] = <<LA, NL>>
    /\ ~Utf8Ok(dequeued[2])
    /\ dequeued[3] = <<LA, NL>>
    /\ sentBlobs # <<>>
    /\ sentBlobs[1] = <<LBRACE, LA, RBRACE, NL, LBRACE, LA, RBRACE, NL>>
    /\ wcount[1] = 2

\* C17 line normalization: the text handed to the transformation is the line
\* without a suffix, and the suffix is: a CR if the byte before the final NL
\* (or the last byte of a line without NL) is a CR, followed by a NL if the
\* line ends with one; so the text holds no NL, at most one CR is stripped, and
\* an unterminated line ending in CR loses that CR
LineNormalization ==
    upc = "call" =>
        LET n == Len(lineBytes)
            hasNL == n > 0 /\ lineBytes[n] = NL
            m == IF hasNL THEN n - 1 ELSE n
            hasCR == m > 0 /\ lineBytes[m] = CR
            removed == (IF hasCR THEN <<CR>> ELSE <<>>) \o (IF hasNL THEN <<NL>> ELSE <<>>)
            crs(b) == Cardinality({ i \in 1..Len(b) : b[i] = CR })
        IN /\ text \o removed = lineBytes
           /\ \A i \in 1..Len(text) : text[i] # NL
           /\ crs(lineBytes) - crs(text) <= 1
           /\ (~hasNL /\ lineBytes[n] = CR) => text = SubSeq(lineBytes, 1, n - 1)

\* a line ending in CR CR NL was handed over with one CR left
LineNormalizationWitness ==
    /\ upc = "call"
    /\ lineBytes = <<LA, CR, CR, NL>>
    /\ text = <<LA, CR>>

\* the writer leaves its loop and performs w.flush() in this step
ExplicitFlushStep == wrpc = "recv" /\ wrpc' = "done" /\ takenBlobs' = takenBlobs

\* C18 writer shutdown ordering: a run returns Ok only after the writer's
\* explicit flush succeeded; the flush is performed only when the blob queue is
\* empty, main has dropped its tx_blobs and every worker thread has terminated
\* with every blob sent so far taken; it is the writer's last step, so it
\* happens at most once, and no blob is sent after it; a failed write ends the
\* writer in the same step, and the sink receives nothing once it has ended
WriterShutdownOrdering ==
    /\ [](ret.kind = "ok" => wrpc = "done" /\ wrres = "ok")
    /\ [][ExplicitFlushStep =>
            /\ blobQ = <<>>
            /\ ~mainTxBlobs
            /\ spawned = nWorkers
            /\ \A w \in SpawnedWorkers : WorkerTerminated(w)
            /\ takenBlobs = sentBlobs]_vars
    /\ [][(wrres # "ok" /\ wrres' = "ok") => ExplicitFlushStep]_vars
    /\ [][wrpc = "done" =>
            /\ wrpc' = "done"
            /\ sink' = sink
            /\ sentBlobs' = sentBlobs
            /\ blobQ' = blobQ]_vars
    /\ [][(takenBlobs' # takenBlobs /\ wrres' \in {"err", "panic"}) =>
            /\ wrpc' = "done"
            /\ ~ExplicitFlushStep]_vars

\* a two-worker run returned Ok; the bytes of a blob smaller than the write
\* buffer reached the sink through the explicit flush
WriterShutdownWitness ==
    /\ ret.kind = "ok"
    /\ nWorkers = 2
    /\ wrres = "ok"
    /\ Len(sentBlobs) >= 2
    /\ Len(sentBlobs[Len(sentBlobs)]) < WRITER_BUF
    /\ sink = Concat(sentBlobs)

\* worker w has left its loop: it is at the remainder test, at the count send,
\* or has ended
OnExitPath(w) == wpc[w] \in {"final", "count", "done"}

\* C19 worker early exit: a threshold flush attempted after the writer has
\* ended is never blocked; it sends nothing, discards the blob, dequeues
\* nothing and leaves the worker on its exit path with an empty blob.  A worker
\* on its exit path never returns to the loop and takes no part in a dequeue;
\* with an empty blob it sends nothing to the blob queue; it then sends its
\* local count, once, as its last step
WorkerEarlyExit ==
    /\ [](\A w \in Workers :
            /\ (ProcessAlive /\ wpc[w] = "flush" /\ wrpc = "done") => ENABLED WorkerFlush(w)
            /\ (ProcessAlive /\ wpc[w] = "final" /\ wblob[w] = <<>>) => ENABLED WorkerFinal(w)
            /\ (ProcessAlive /\ wpc[w] = "count") => ENABLED WorkerCount(w))
    /\ [][\A w \in Workers :
            (wpc[w] = "flush" /\ wrpc = "done" /\ wpc'[w] # wpc[w]) =>
                /\ wpc'[w] = "final"
                /\ wblob'[w] = <<>>
                /\ wcount'[w] = wcount[w]
                /\ UNCHANGED <<blobQ, sentBlobs, lineQ, dequeued, countQ>>]_vars
    /\ [][\A w \in Workers :
            OnExitPath(w) =>
                /\ wpc'[w] \in {"final", "count", "done"}
                /\ wcount'[w] = wcount[w]
                /\ (wpc[w] = "done" => wpc'[w] = "done")
                /\ (wpc'[w] # wpc[w] => (lineQ' = lineQ /\ dequeued' = dequeued))
                /\ (wpc'[w] # wpc[w] /\ wpc[w] = "final") =>
                      /\ wpc'[w] = "count"
                      /\ countQ' = countQ
                      /\ (wblob[w] = <<>> => (blobQ' = blobQ /\ sentBlobs' = sentBlobs))
                /\ (wpc'[w] # wpc[w] /\ wpc[w] = "count") =>
                      /\ wpc'[w] = "done"
                      /\ blobQ' = blobQ /\ sentBlobs' = sentBlobs
                      /\ (MainAlive => countQ' = Append(countQ, wcount[w]))]_vars
    /\ [][dequeued' # dequeued => \E w \in Workers : wpc[w] = "recv"]_vars

\* the one worker has ended after its record-threshold flush failed (its
\* record counter was never reset): the writer had ended on a write error
\* after taking the first blob, the two records of the second blob were
\* discarded, a line is still queued, and the worker's count of all the
\* records it emitted is in the counts channel
WorkerEarlyExitWitness ==
    /\ nWorkers = 1
    /\ wpc[1] = "done"
    /\ wlines[1] = LINES_BLOB_MAX
    /\ wrpc = "done" /\ wrres = "err"
    /\ Len(sentBlobs) = 1
    /\ wcount[1] = RecordsIn(sentBlobs[1]) + LINES_BLOB_MAX
    /\ lineQ # <<>>
    /\ countQ = <<wcount[1]>>

\* C20 transparent source detection: whichever of the two functions is called,
\* when it returns a stream the stream is a decompressing one exactly when the
\* sniffing read returned two bytes and the file starts with 0x1F 0x8B, and
\* the raw stream otherwise (a file of fewer than two bytes included); in both
\* cases the handle stands at offset 0, so a raw stream yields the whole file
GzipDetection ==
    (upc = "done" /\ opened # "err") =>
        /\ opener \in Openers
        /\ opened \in {"gzip", "raw"}
        /\ opened = "gzip" <=>
             (nRead = 2 /\ Len(fhBytes) >= 2 /\ fhBytes[1] = GZ1 /\ fhBytes[2] = GZ2)
        /\ Len(fhBytes) < 2 => opened = "raw"
        /\ fhPos = 0
        /\ opened = "raw" => SubSeq(fhBytes, fhPos + 1, Len(fhBytes)) = fhBytes

\* open_maybe_gz_bufread returned a decompressing stream, standing at offset 0,
\* for a file that starts with the magic
GzipDetectionWitness ==
    /\ upc = "done"
    /\ opener = "open_maybe_gz_bufread"
    /\ opened = "gzip"
    /\ fhBytes = <<GZ1, GZ2, LA>>
    /\ nRead = 2
    /\ fhPos = 0

RECURSIVE ReadAllLines(_, _)
\* core.rs:149-158: the Lines the reader loop enqueues for content c from
\* offset pos on, when no read fails and every send succeeds
ReadAllLines(c, pos) ==
    LET line == ReadUntil(c, pos)
    IN IF Len(line) = 0 THEN <<>>
       ELSE <<line>> \o ReadAllLines(c, pos + Len(line))

\* C21 counter versus reader: however the block reads split the content,
\* count_lines_any returns the number of NL bytes in it; the reader enqueues
\* that many Lines for the same content, and exactly one more when the content
\* is non-empty and does not end with NL
CounterVersusReader ==
    upc = "counted" =>
        LET nls == Cardinality({ i \in 1..Len(fhBytes) : fhBytes[i] = NL })
            openTail == fhBytes # <<>> /\ fhBytes[Len(fhBytes)] # NL
        IN /\ countTotal = nls
           /\ countTotal = CountLinesAny(fhBytes)
           /\ Len(ReadAllLines(fhBytes, 0)) = countTotal + (IF openTail THEN 1 ELSE 0)

\* a content with two NL bytes and an unterminated last line was counted: 2 is
\* returned where the reader enqueues 3 Lines
CounterVersusReaderWitness ==
    /\ upc = "counted"
    /\ fhBytes = <<LA, NL, NL, LA>>
    /\ countTotal = 2
    /\ Len(ReadAllLines(fhBytes, 0)) = 3

====
